---- MODULE Spec2Model ----
(***************************************************************************)
(* Group RAG Assistant: the session memory and its lock, the two ask        *)
(* endpoints of the server and their scheduling (app/server.py), the query *)
(* orchestrator (app/rag/query.py, app/llm.py) and the ingestion           *)
(* (app/rag/ingest.py).  Python str values are TLA+ strings (\o, Len and   *)
(* SubSeq act on them as on sequences of characters); None is the value    *)
(* None.                                                                   *)
(***************************************************************************)
EXTENDS Integers, Sequences, FiniteSets, TLC

VARIABLES
    SESSION_TURNS,  \* _SESSION_TURNS: session id -> deque of turns (a sequence)
    index,          \* state of SETTINGS.vectorstore_dir: "absent", "empty", "built"
    req,            \* the HTTP requests: request number -> request record
    appended,       \* session-memory client: turns passed to _store_turn, per session id
    lastCtx,        \* session-memory client: what its last call returned (a context, or None)
    cli,            \* a direct caller of ask() or format_sources(): the frame of its call
    lastCall,       \* session-memory client: its last _build_context call (Unset after a _store_turn)
    ingest,         \* the last run of build_index(): what it did and returned (Unset before)
    MEM_LOCK        \* _MEM_LOCK: the thread that holds it (a request number), or Free

vars == <<SESSION_TURNS, index, req, appended, lastCtx, cli, lastCall, ingest, MEM_LOCK>>

\* Python's None where a str is expected (no str of the model equals it), and
\* the value of a local or a field that has not been assigned yet
None == "<None>"
Unset == [unset |-> TRUE]
\* threading.Lock when no thread holds it
Free == 0

\* ------------------------------------------------------------------ bounds
\* number of HTTP requests, all of which may be in flight together
MaxRequests == 2
\* number of _store_turn calls per session made by the session-memory client
MaxAppends == 85
\* number of calls each concurrent session-memory thread makes
MaxMemCalls == 2

\* ------------------------------------------------------- program constants
DEFAULT_CONTEXT_TURNS == 10
MAX_TURNS_PER_SESSION == 80
\* the size api_ask_stream.gen passes to _chunk_text
STREAM_CHUNK_SIZE == 140
\* the bounds _build_context passes to _clamp_int
CONTEXT_DEPTH_LO == 0
CONTEXT_DEPTH_HI == 10

Min(a, b) == IF a <= b THEN a ELSE b
Max(a, b) == IF a >= b THEN a ELSE b

\* Python truthiness of an Optional[str]: None and "" are falsy
Truthy(s) == s /= None /\ s /= ""

\* ========================================================== session memory

\* (mutant) a full deque refuses the new item
DequeAppendKeepOldest(hist, t) ==
    IF Len(hist) >= MAX_TURNS_PER_SESSION THEN hist ELSE Append(hist, t)

\* (mutant) a deque without maxlen
DequeAppendUnbounded(hist, t) == Append(hist, t)

\* collections.deque(maxlen=MAX_TURNS_PER_SESSION).append: when the deque is
\* full, the item at the left end is discarded
DequeAppend(hist, t) ==
    IF Len(hist) >= MAX_TURNS_PER_SESSION
    THEN Append(SubSeq(hist, 2, Len(hist)), t)
    ELSE Append(hist, t)

\* (mutant) no upper bound on the depth
clamp_int_no_upper(x, lo, hi) == Max(lo, x)

clamp_int(x, lo, hi) == Max(lo, Min(hi, x))

\* (mutant) the session's deque is replaced by a new one at each call
get_history_recreate(store, session_id) ==
    [s \in DOMAIN store \cup {session_id} |->
        IF s = session_id THEN <<>> ELSE store[s]]

\* _get_history: the store after the call (the session is created when absent);
\* the deque returned is the store's entry for session_id
get_history(store, session_id) ==
    IF session_id \in DOMAIN store
    THEN store
    ELSE [s \in DOMAIN store \cup {session_id} |->
            IF s = session_id THEN <<>> ELSE store[s]]

\* f"User: {t['q']}\nAssistant: {t['a']}"
RenderTurn(t) == "User: " \o t.q \o "\nAssistant: " \o t.a

RECURSIVE JoinBlankLine(_)
\* "\n\n".join(lines)
JoinBlankLine(lines) ==
    IF Len(lines) = 0 THEN ""
    ELSE IF Len(lines) = 1 THEN lines[1]
    ELSE lines[1] \o "\n\n" \o JoinBlankLine(Tail(lines))

\* (mutant) the oldest turns of the history instead of the newest
LastTurnsOldest(hist, depth) == SubSeq(hist, 1, Min(depth, Len(hist)))

\* list(hist)[-depth:] for depth >= 1
LastTurns(hist, depth) ==
    SubSeq(hist, Max(1, Len(hist) - depth + 1), Len(hist))

\* _build_context after hist = _get_history(...): the text of the last turns
context_of(hist, depth) ==
    IF Len(hist) = 0
    THEN ""
    ELSE LET turns == LastTurns(hist, depth)
             lines == [i \in 1..Len(turns) |-> RenderTurn(turns[i])]
         IN  JoinBlankLine(lines)

\* _build_context: the string returned, and the store after the call
build_context(store, session_id, depth0) ==
    LET depth == clamp_int(depth0, CONTEXT_DEPTH_LO, CONTEXT_DEPTH_HI) IN
    IF depth <= 0
    THEN [ctx |-> "", store |-> store]
    ELSE LET store1 == get_history(store, session_id) IN
         [ctx |-> context_of(store1[session_id], depth), store |-> store1]

\* (mutant) one deque shared by all the sessions: the turn goes to each of them
hist_append_shared(store, session_id, q, a) ==
    [s \in DOMAIN store |-> DequeAppend(store[s], [q |-> q, a |-> a])]

\* _store_turn, second statement: with _MEM_LOCK: hist.append({"q": q, "a": a}),
\* hist being the deque that _get_history returned for session_id
hist_append(store, session_id, q, a) ==
    [store EXCEPT ![session_id] = DequeAppend(@, [q |-> q, a |-> a])]

\* _store_turn: the store after the call
store_turn(store, session_id, q, a) ==
    hist_append(get_history(store, session_id), session_id, q, a)

\* ===================================================== query orchestrator

\* default max_snippet of format_sources
MAX_SNIPPET == 220

Whitespace == {" ", "\t", "\r", "\f", "\n"}

RECURSIVE ReplaceNewlines(_)
\* s.replace("\n", " ")
ReplaceNewlines(s) ==
    IF Len(s) = 0 THEN ""
    ELSE IF Len(s) = 1 THEN (IF s = "\n" THEN " " ELSE s)
    ELSE LET h == Len(s) \div 2 IN
         ReplaceNewlines(SubSeq(s, 1, h)) \o ReplaceNewlines(SubSeq(s, h + 1, Len(s)))

\* s.strip(): from the first to the last character that is not whitespace
Strip(s) ==
    LET keep == {i \in 1..Len(s) : SubSeq(s, i, i) \notin Whitespace} IN
    IF keep = {} THEN ""
    ELSE SubSeq(s, CHOOSE i \in keep : \A j \in keep : i <= j,
                   CHOOSE i \in keep : \A j \in keep : i >= j)

\* the one character U+2026 (horizontal ellipsis), which a module cannot hold
Ellipsis == "^"

\* the snippet of one retrieved chunk (page_content None or "" gives "")
Snippet(d) ==
    LET raw == IF d.page_content = None THEN "" ELSE d.page_content
        s == Strip(ReplaceNewlines(raw))
    IN  IF Len(s) > MAX_SNIPPET THEN SubSeq(s, 1, MAX_SNIPPET) \o Ellipsis ELSE s

\* A retrieved chunk is [source, has_page, page, page_content]: source is None
\* when the metadata has no "source" key, has_page is FALSE when page is None.
\* d.metadata.get("source", "unknown")
DocSource(d) == IF d.source = None THEN "unknown" ELSE d.source

\* key = f"{src}:{int(page)}" or f"{src}"
DocKey(d) ==
    IF d.has_page THEN DocSource(d) \o ":" \o ToString(d.page)
    ELSE DocSource(d)

DocLine(d) ==
    IF d.has_page
    THEN "- " \o DocSource(d) \o " (p." \o ToString(d.page + 1) \o "): " \o Snippet(d)
    ELSE "- " \o DocSource(d) \o ": " \o Snippet(d)

RECURSIVE SourceLines(_, _)
\* the loop of format_sources over docs, with the keys seen so far
SourceLines(docs, seen) ==
    IF Len(docs) = 0 THEN <<>>
    ELSE LET d == Head(docs) IN
         IF DocKey(d) \in seen
         THEN SourceLines(Tail(docs), seen)
         ELSE <<DocLine(d)>> \o SourceLines(Tail(docs), seen \cup {DocKey(d)})

RECURSIVE JoinNewline(_)
\* "\n".join(lines)
JoinNewline(lines) ==
    IF Len(lines) = 0 THEN ""
    ELSE IF Len(lines) = 1 THEN lines[1]
    ELSE lines[1] \o "\n" \o JoinNewline(Tail(lines))

format_sources(docs) == JoinNewline(SourceLines(docs, {}))

Agents == {"thesis", "python", "reviewer"}

SYSTEM_HINT(agent) ==
    CASE agent = "thesis" ->
           "Use ONLY the provided context. If context is insufficient, output [MISSING INFO] "
           \o "and list exactly what is missing. Do not invent citations or data."
      [] agent = "reviewer" ->
           "Use ONLY the provided context/text. Be strict and specific. "
           \o "Do not invent facts or citations."
      [] agent = "python" ->
           "Return runnable Python code only. Use the provided context when relevant. "
           \o "If you must assume something, write it as a Python comment starting with: # ASSUMPTION:"

\* SYSTEM_HINT.get(agent, SYSTEM_HINT["thesis"])
SystemHintGet(agent) ==
    IF agent \in Agents THEN SYSTEM_HINT(agent) ELSE SYSTEM_HINT("thesis")

\* app/config.py: the model names of SETTINGS
SETTINGS_model(agent) ==
    CASE agent = "thesis" -> "typewriter-thesis"
      [] agent = "python" -> "typewriter-python"
      [] agent = "reviewer" -> "typewriter-thesis"

\* get_chat: the chat model of an agent, or the ValueError it raises
get_chat(agent) ==
    IF agent = "thesis"
    THEN [ok |-> TRUE, model |-> SETTINGS_model("thesis"), temperature |-> "0.25"]
    ELSE IF agent = "python"
    THEN [ok |-> TRUE, model |-> SETTINGS_model("python"), temperature |-> "0.2"]
    ELSE IF agent = "reviewer"
    THEN [ok |-> TRUE, model |-> SETTINGS_model("reviewer"), temperature |-> "0.2"]
    ELSE [ok |-> FALSE, error |-> "Unknown agent: " \o agent]

RECURSIVE JoinContents(_)
\* "\n\n".join(d.page_content for d in docs)
JoinContents(docs) ==
    IF Len(docs) = 0 THEN ""
    ELSE IF Len(docs) = 1 THEN docs[1].page_content
    ELSE docs[1].page_content \o "\n\n" \o JoinContents(Tail(docs))

\* The frame of one call of ask(agent, question, k): its position, its locals,
\* the calls it has made to the external capabilities, and its result
\* (Unset while running; [ok |-> TRUE, answer, sources] returned;
\* [ok |-> FALSE, error] raised).
AskStart(agent, question, k) ==
    [pc |-> "retrieve", agent |-> agent, question |-> question, k |-> k,
     docs |-> <<>>, sys |-> None, llm |-> Unset, calls |-> <<>>, result |-> Unset]

AskIdle == [pc |-> "idle"]

\* Chroma(...), vs.as_retriever(...), retriever.invoke(question): the retrieval
\* capability is called; env.retrieve is what it answers
AskRetrieve(f, env) ==
    LET call == [cap |-> "retrieval", query |-> f.question, k |-> f.k,
                 fetch_k |-> Max(24, f.k * 3)] IN
    IF env.retrieve.ok
    THEN [f EXCEPT !.pc = "resolve", !.calls = Append(@, call),
                   !.docs = env.retrieve.docs]
    ELSE [f EXCEPT !.pc = "done", !.calls = Append(@, call),
                   !.result = [ok |-> FALSE, error |-> env.retrieve.error]]

\* sys = SYSTEM_HINT.get(...); llm = get_chat(agent)
AskResolve(f) ==
    LET chat == get_chat(f.agent) IN
    IF chat.ok
    THEN [f EXCEPT !.pc = "generate", !.sys = SystemHintGet(f.agent), !.llm = chat]
    ELSE [f EXCEPT !.pc = "done", !.sys = SystemHintGet(f.agent),
                   !.result = [ok |-> FALSE, error |-> chat.error]]

\* llm.invoke([SystemMessage(sys), HumanMessage(prompt)]): the generation
\* capability is called; env.generate is what it answers
AskGenerate(f, env) ==
    LET prompt == "Context:\n" \o JoinContents(f.docs) \o "\n\n"
                  \o "User request:\n" \o f.question \o "\n"
        call == [cap |-> "generation", model |-> f.llm.model, system |-> f.sys,
                 prompt |-> prompt]
    IN  IF env.generate.ok
        THEN [f EXCEPT !.pc = "done", !.calls = Append(@, call),
                       !.result = [ok |-> TRUE, answer |-> env.generate.content,
                                   sources |-> format_sources(f.docs)]]
        ELSE [f EXCEPT !.pc = "done", !.calls = Append(@, call),
                       !.result = [ok |-> FALSE, error |-> env.generate.error]]

AskStep(f, env) ==
    CASE f.pc = "retrieve" -> AskRetrieve(f, env)
      [] f.pc = "resolve" -> AskResolve(f)
      [] f.pc = "generate" -> AskGenerate(f, env)
      [] OTHER -> f

\* ask(agent, question, k) run to its end against what the capabilities answer
ask(agent, question, k, env) ==
    AskStep(AskStep(AskStep(AskStart(agent, question, k), env), env), env)

\* ============================================================== ingestion
\* Paths are str values; kb_dir and the working directory are absolute and hold
\* no symbolic link, so that Path.resolve() only makes a path absolute and
\* removes its ".." segments.

\* SETTINGS.kb_dir (ROOT / "kb", ROOT being resolved) for a project at /proj
KB_DIR == "/proj/kb"

UpperLetters == "ABCDEFGHIJKLMNOPQRSTUVWXYZ"
LowerLetters == "abcdefghijklmnopqrstuvwxyz"

LowerChar(c) ==
    IF \E i \in 1..Len(UpperLetters) : SubSeq(UpperLetters, i, i) = c
    THEN LET i == CHOOSE i \in 1..Len(UpperLetters) : SubSeq(UpperLetters, i, i) = c
         IN  SubSeq(LowerLetters, i, i)
    ELSE c

RECURSIVE Lower(_)
\* str.lower() on ASCII text
Lower(s) ==
    IF Len(s) = 0 THEN ""
    ELSE LowerChar(SubSeq(s, 1, 1)) \o Lower(SubSeq(s, 2, Len(s)))

RECURSIVE SplitSlash(_)
\* s.split("/")
SplitSlash(s) ==
    LET slashes == {i \in 1..Len(s) : SubSeq(s, i, i) = "/"} IN
    IF slashes = {} THEN <<s>>
    ELSE LET i == CHOOSE i \in slashes : \A j \in slashes : i <= j IN
         <<SubSeq(s, 1, i - 1)>> \o SplitSlash(SubSeq(s, i + 1, Len(s)))

IsSegment(x) == x /= "" /\ x /= "."

\* Path(s): whether it is absolute, and its segments ("" and "." are dropped,
\* ".." is kept)
IsAbsolute(s) == Len(s) > 0 /\ SubSeq(s, 1, 1) = "/"
PathParts(s) == SelectSeq(SplitSlash(s), IsSegment)

RECURSIVE RemoveDotDot(_, _)
\* the ".." segments of an absolute path are resolved from the left
RemoveDotDot(done, rest) ==
    IF Len(rest) = 0 THEN done
    ELSE IF Head(rest) = ".."
    THEN RemoveDotDot(IF Len(done) = 0 THEN done ELSE SubSeq(done, 1, Len(done) - 1),
                      Tail(rest))
    ELSE RemoveDotDot(Append(done, Head(rest)), Tail(rest))

\* Path(s).resolve(), as the segments below "/"; cwd is the working directory
Resolve(s, cwd) ==
    RemoveDotDot(<<>>, (IF IsAbsolute(s) THEN <<>> ELSE PathParts(cwd)) \o PathParts(s))

\* p.relative_to(root): the segments of p below root, or the ValueError
RelativeTo(p, root) ==
    IF Len(p) >= Len(root) /\ SubSeq(p, 1, Len(root)) = root
    THEN [ok |-> TRUE, parts |-> SubSeq(p, Len(root) + 1, Len(p))]
    ELSE [ok |-> FALSE]

\* The metadata of a Document: its four candidate keys, None when absent
Meta(source, file_path, path, filename) ==
    [source |-> source, file_path |-> file_path, path |-> path, filename |-> filename]
\* a Document as a loader makes it for the file source; kb_scope is not set yet
KbDoc(source) ==
    [metadata |-> Meta(source, None, None, None), page_content |-> "text", kb_scope |-> None]

\* a or b or c or d: the first truthy value, or the last one
OrChain(vals) ==
    IF \E i \in 1..Len(vals) : Truthy(vals[i])
    THEN vals[CHOOSE i \in 1..Len(vals) :
                 Truthy(vals[i]) /\ \A j \in 1..(i - 1) : ~Truthy(vals[j])]
    ELSE vals[Len(vals)]

\* build_index lines 38-45: the metadata with its "source" key made consistent
NormalizeSource(metadata) ==
    LET src == OrChain(<<metadata.source, metadata.file_path, metadata.path,
                         metadata.filename>>)
    IN  IF src /= None THEN [metadata EXCEPT !.source = src] ELSE metadata

\* build_index lines 48-58: the kb_scope of a Document whose metadata has been
\* normalized
kb_scope(metadata, cwd) ==
    LET source == IF metadata.source = None THEN "" ELSE metadata.source
        rel == RelativeTo(Resolve(source, cwd), Resolve(KB_DIR, cwd))
    IN  IF ~rel.ok THEN "unknown"
        ELSE LET top == IF Len(rel.parts) > 0 THEN rel.parts[1] ELSE "" IN
             IF Lower(top) = "internal" THEN "internal"
             ELSE IF Lower(top) = "public" THEN "public"
             ELSE "unknown"

\* the loop of build_index over the documents
TagDoc(d, cwd) ==
    LET m == NormalizeSource(d.metadata) IN
    [d EXCEPT !.metadata = m, !.kb_scope = kb_scope(m, cwd)]

\* what a function returns when it returns None, and when it returns a value
ReturnsNone == [none |-> TRUE]

\* build_index(), run in the working directory cwd on the documents that
\* load_docs finds, the splitter making nchunks chunks of them: the documents
\* as loaded and as tagged, the index directory afterwards, what is printed
\* and what is returned
build_index(docs, cwd, ix, nchunks) ==
    IF Len(docs) = 0
    THEN [loaded |-> docs, docs |-> docs, cwd |-> cwd, nchunks |-> 0, index |-> ix,
          raised |-> FALSE,
          printed |-> "kb/ is empty. Add at least one .md/.txt/.pdf first.",
          ret |-> ReturnsNone]
    ELSE [loaded |-> docs, docs |-> [i \in 1..Len(docs) |-> TagDoc(docs[i], cwd)],
          cwd |-> cwd, nchunks |-> nchunks, index |-> "built", raised |-> FALSE,
          printed |-> "OK: indexed " \o ToString(nchunks) \o " chunks into /proj/vectorstore",
          ret |-> ReturnsNone]

\* ================================================================= server

\* (mutant) the directory is only tested for existence
index_ready_exists(ix) == ix /= "absent"

\* index_ready(): vectorstore_dir.exists() and any(vectorstore_dir.iterdir())
index_ready(ix) == ix = "built"

\* (mutant) the spec's identifier "writer" is let through
AgentRejectedButWriter(agent) == agent \notin Agents \cup {"writer"}

\* req.agent not in {"thesis", "python", "reviewer"}
AgentRejected(agent) == agent \notin Agents

AGENT_DETAIL == "agent must be thesis/python/reviewer"

INDEX_MISSING ==
    "Vector index not found. Run: python main.py ingest (from project root), then reload the page."

\* str(e) of the HTTPException(status_code=400, detail=AGENT_DETAIL)
HttpExceptionStr == "400: " \o AGENT_DETAIL

\* the prompt of a request that continues a conversation
Augmented(ctx, question) ==
    "You are continuing an ongoing conversation. Use the context below to stay consistent.\n\n"
    \o "=== Conversation context (most recent last) ===\n"
    \o ctx \o "\n"
    \o "=== End context ===\n\n"
    \o "User: " \o question

\* (mutant) the framing is added whatever the context
QuestionForModelAlways(ctx, question) == Augmented(ctx, question)

\* question_for_model, given the context built for the session
QuestionForModel(ctx, question) ==
    IF ctx /= "" THEN Augmented(ctx, question) ELSE question

\* x or ""
OrEmpty(x) == IF x = None \/ x = "" THEN "" ELSE x

\* (mutant) the size argument is dropped, so that the default of 120 is used
chunk_text_default_size(s, size) ==
    IF Len(s) = 0 THEN <<>>
    ELSE [i \in 1..((Len(s) + 119) \div 120) |->
            SubSeq(s, (i - 1) * 120 + 1, Min(i * 120, Len(s)))]

\* _chunk_text(s, size), as the sequence of the slices it yields
chunk_text(s, size) ==
    IF Len(s) = 0 THEN <<>>
    ELSE [i \in 1..((Len(s) + size - 1) \div size) |->
            SubSeq(s, (i - 1) * size + 1, Min(i * size, Len(s)))]

\* JSONResponse(content): status code 200
JsonResponse(body) == [status |-> 200, body |-> body]

\* StreamingResponse(gen(), media_type="application/x-ndjson"): status code 200;
\* the events of its body are the request's events
StreamingResponse == [status |-> 200, body |-> [media_type |-> "application/x-ndjson"]]

\* (mutant) the message of the exception is replaced by a fixed text
ApiAskExceptMasked(msg) == JsonResponse([ok |-> FALSE, error |-> "internal error"])

\* what api_ask answers when an exception e reaches its except clause
ApiAskExcept(msg) == JsonResponse([ok |-> FALSE, error |-> msg])

\* what the stream yields when an exception reaches the except clause of gen()
GenExcept(msg) == [type |-> "error", error |-> msg]

\* A request: its position in its handler, its fields (AskRequest), the locals
\* of the handler, and what has been observed of it: index_seen is the state of
\* the index directory that index_ready() looked at (None when it was not
\* called), out the result of ask (Unset while it has not ended), ncalls the
\* number of calls of ask, calls the capability calls those made, resp the HTTP
\* response, events the NDJSON lines the stream has yielded; depth is the
\* depth argument of the _build_context call and ctx what it returned (None
\* before).  A thread that calls _store_turn or _build_context directly is
\* a request whose ep is the name of the function: its ncalls counts the calls
\* it has made, and its calls are the turns it has passed to _store_turn.
IdleReq ==
    [pc |-> "idle", ep |-> None, agent |-> None, question |-> None, k |-> 0,
     session_id |-> None, question_for_model |-> None, answer |-> None,
     index_seen |-> None, out |-> Unset, ncalls |-> 0, calls |-> <<>>,
     resp |-> Unset, events |-> <<>>, depth |-> 0, ctx |-> None]

\* the caller of _build_context once the call has returned ctx: a handler
\* assembles question_for_model (api_ask lines 961-968, api_ask_stream lines
\* 1004-1011, where the StreamingResponse is then returned)
AfterContext(rq, ctx) ==
    IF rq.ep \in {"ask", "stream"}
    THEN [rq EXCEPT !.pc = "ask", !.ctx = ctx,
                    !.question_for_model = QuestionForModel(ctx, rq.question),
                    !.resp = IF rq.ep = "stream" THEN StreamingResponse ELSE Unset]
    ELSE [rq EXCEPT !.pc = "returned", !.ctx = ctx]

Requests == 1..MaxRequests

\* (mutant) index_ready() is tested before the agent
ReceivedIndexFirst(ep, agent, question, k, session_id, ix) ==
    LET q00 == [IdleReq EXCEPT !.ep = ep, !.agent = agent, !.question = question,
                               !.k = k, !.session_id = session_id]
        q0 == [q00 EXCEPT !.index_seen = ix]
    IN  IF ~index_ready(ix)
        THEN IF ep = "ask"
             THEN [q0 EXCEPT !.pc = "done",
                             !.resp = JsonResponse([ok |-> FALSE, error |-> INDEX_MISSING])]
             ELSE [q0 EXCEPT !.pc = "done",
                             !.resp = StreamingResponse,
                             !.events = <<[type |-> "error", error |-> INDEX_MISSING]>>]
        ELSE IF AgentRejected(agent)
        THEN IF ep = "ask"
             THEN [q0 EXCEPT !.pc = "done", !.resp = ApiAskExcept(HttpExceptionStr)]
             ELSE [q0 EXCEPT !.pc = "done",
                             !.resp = [status |-> 400, body |-> [detail |-> AGENT_DETAIL]]]
        ELSE [q0 EXCEPT !.pc = IF Truthy(session_id) THEN "ctx_get" ELSE "ask",
                        !.depth = IF Truthy(session_id) THEN DEFAULT_CONTEXT_TURNS ELSE 0,
                        !.question_for_model = question,
                        !.resp = IF ep = "stream" /\ ~Truthy(session_id)
                                 THEN StreamingResponse ELSE Unset]

\* the handler of endpoint ep run on a request up to its first access to the
\* session store, the index directory being in state ix: api_ask lines 946-959,
\* api_ask_stream lines 986-1002
Received(ep, agent, question, k, session_id, ix) ==
    LET q00 == [IdleReq EXCEPT !.ep = ep, !.agent = agent, !.question = question,
                               !.k = k, !.session_id = session_id]
        q0 == [q00 EXCEPT !.index_seen = ix]
    IN  IF AgentRejected(agent)
        THEN IF ep = "ask"
             THEN [q00 EXCEPT !.pc = "done", !.resp = ApiAskExcept(HttpExceptionStr)]
             ELSE [q00 EXCEPT !.pc = "done",
                              !.resp = [status |-> 400, body |-> [detail |-> AGENT_DETAIL]]]
        ELSE IF ~index_ready(ix)
        THEN IF ep = "ask"
             THEN [q0 EXCEPT !.pc = "done",
                             !.resp = JsonResponse([ok |-> FALSE, error |-> INDEX_MISSING])]
             ELSE [q0 EXCEPT !.pc = "done",
                             !.resp = StreamingResponse,
                             !.events = <<[type |-> "error", error |-> INDEX_MISSING]>>]
        ELSE [q0 EXCEPT !.pc = IF Truthy(session_id) THEN "ctx_get" ELSE "ask",
                        !.depth = IF Truthy(session_id) THEN DEFAULT_CONTEXT_TURNS ELSE 0,
                        !.question_for_model = question,
                        !.resp = IF ep = "stream" /\ ~Truthy(session_id)
                                 THEN StreamingResponse ELSE Unset]

\* the request is received and its handler runs up to its first access to the
\* session store
Receive(r, ep, agent, question, k, session_id) ==
    /\ req[r].pc = "idle"
    /\ IF r = 1 THEN TRUE ELSE req[r - 1].pc /= "idle"
    /\ req' = [req EXCEPT ![r] = Received(ep, agent, question, k, session_id, index)]
    /\ UNCHANGED <<SESSION_TURNS, index, appended, lastCtx, cli, lastCall, ingest, MEM_LOCK>>

\* _build_context: depth is clamped, hist = _get_history(session_id)
ContextGet(r) ==
    /\ req[r].pc = "ctx_get"
    /\ IF clamp_int(req[r].depth, CONTEXT_DEPTH_LO, CONTEXT_DEPTH_HI) <= 0
       THEN /\ req' = [req EXCEPT ![r] = AfterContext(@, "")]
            /\ UNCHANGED SESSION_TURNS
       ELSE /\ SESSION_TURNS' = get_history(SESSION_TURNS, req[r].session_id)
            /\ req' = [req EXCEPT ![r].pc = "ctx_copy"]
    /\ UNCHANGED <<index, appended, lastCtx, cli, lastCall, ingest, MEM_LOCK>>

\* _build_context: list(hist)[-depth:] and the join; then question_for_model
ContextCopy(r) ==
    /\ req[r].pc = "ctx_copy"
    /\ LET depth == clamp_int(req[r].depth, CONTEXT_DEPTH_LO, CONTEXT_DEPTH_HI)
           ctx == context_of(SESSION_TURNS[req[r].session_id], depth)
       IN  req' = [req EXCEPT ![r] = AfterContext(@, ctx)]
    /\ UNCHANGED <<SESSION_TURNS, index, appended, lastCtx, cli, lastCall, ingest, MEM_LOCK>>

\* (mutant) the context is read again from the store when ask is called
AskTextLate(rq, store) ==
    IF Truthy(rq.session_id)
    THEN QuestionForModel(build_context(store, rq.session_id, rq.depth).ctx, rq.question)
    ELSE rq.question

\* the second argument of the call of ask: the local question_for_model, which
\* was assigned before the call; the store at the time of the call has no part
AskText(rq, store) == rq.question_for_model

\* (mutant) gen() does not store the turn before it yields
AfterAskPcNoStore(rq) ==
    IF rq.ep = "stream" THEN "emit"
    ELSE IF Truthy(rq.session_id) THEN "store_get" ELSE "done"

\* where a handler goes once ask has returned: to _store_turn when the session
\* id is truthy, else to its response (api_ask) or to its deltas (gen())
AfterAskPc(rq) ==
    IF Truthy(rq.session_id) THEN "store_get"
    ELSE IF rq.ep = "ask" THEN "done" ELSE "emit"

\* out = ask(req.agent, text, k) against what the capabilities answer, with
\* what follows it up to the next access to the session store: api_ask lines
\* 970-977, gen() lines 1015-1020 and 1028-1029
AfterAsk(rq, text, env) ==
    LET f == ask(rq.agent, text, rq.k, env)
        q1 == [rq EXCEPT !.out = f.result, !.ncalls = @ + 1, !.calls = @ \o f.calls]
    IN  IF ~f.result.ok
        THEN IF q1.ep = "ask"
             THEN [q1 EXCEPT !.pc = "done", !.resp = ApiAskExcept(f.result.error)]
             ELSE [q1 EXCEPT !.pc = "done", !.events = <<GenExcept(f.result.error)>>]
        ELSE IF q1.ep = "ask"
        THEN LET q2 == [q1 EXCEPT !.answer = f.result.answer, !.pc = AfterAskPc(q1)] IN
             IF q2.pc = "done"
             THEN [q2 EXCEPT !.resp = JsonResponse([ok |-> TRUE, answer |-> q2.answer,
                                                    sources |-> f.result.sources])]
             ELSE q2
        ELSE [q1 EXCEPT !.answer = OrEmpty(f.result.answer), !.pc = AfterAskPc(q1)]

\* the call of ask returns
AskCall(r, env) ==
    /\ req[r].pc = "ask"
    /\ req' = [req EXCEPT ![r] = AfterAsk(req[r], AskText(req[r], SESSION_TURNS), env)]
    /\ UNCHANGED <<SESSION_TURNS, index, appended, lastCtx, cli, lastCall, ingest, MEM_LOCK>>

\* (mutant) the text handed to the model is stored
StoredQuestionAugmented(rq) == rq.question_for_model

\* (mutant) gen() stores the text handed to the model
StoredQuestionStreamAugmented(rq) ==
    IF rq.ep = "stream" THEN rq.question_for_model ELSE rq.question

\* the q argument of _store_turn: req.question
StoredQuestion(rq) == rq.question

\* _store_turn(req.session_id, req.question, answer), first statement:
\* hist = _get_history(session_id)
StoreGet(r) ==
    /\ req[r].pc = "store_get"
    /\ SESSION_TURNS' = get_history(SESSION_TURNS, req[r].session_id)
    /\ req' = [req EXCEPT ![r].pc = "store"]
    /\ UNCHANGED <<index, appended, lastCtx, cli, lastCall, ingest, MEM_LOCK>>

\* the caller of _store_turn once the call has returned: api_ask returns its
\* response (line 975), gen() goes on to its deltas (line 1023)
AfterStore(rq) ==
    IF rq.ep = "ask"
    THEN [rq EXCEPT !.pc = "done",
                    !.resp = JsonResponse([ok |-> TRUE, answer |-> rq.answer,
                                           sources |-> rq.out.sources])]
    ELSE IF rq.ep = "stream"
    THEN [rq EXCEPT !.pc = "emit"]
    ELSE [rq EXCEPT !.pc = "returned"]

\* _store_turn, second statement: the turn is appended under the lock, and the
\* call returns
StoreTurn(r) ==
    /\ req[r].pc = "store"
    /\ SESSION_TURNS' = hist_append(SESSION_TURNS, req[r].session_id,
                                    StoredQuestion(req[r]), req[r].answer)
    /\ req' = [req EXCEPT ![r] = AfterStore(@)]
    /\ UNCHANGED <<index, appended, lastCtx, cli, lastCall, ingest, MEM_LOCK>>

\* (mutant) the generator goes on after the done event
EmittedNoReturn(rq) ==
    LET chunks == chunk_text(rq.answer, STREAM_CHUNK_SIZE)
        n == Len(rq.events) + 1
    IN  IF n <= Len(chunks)
        THEN [rq EXCEPT !.events = Append(@, [type |-> "delta", text |-> chunks[n]])]
        ELSE [rq EXCEPT !.events = Append(@, [type |-> "done",
                                               sources |-> OrEmpty(rq.out.sources)])]

\* gen(), lines 1023-1027: the next slice of _chunk_text(answer, size=140) is
\* yielded as a delta; when the slices are exhausted the done event is yielded
\* and the generator ends
Emitted(rq) ==
    LET chunks == chunk_text(rq.answer, STREAM_CHUNK_SIZE)
        n == Len(rq.events) + 1
    IN  IF n <= Len(chunks)
        THEN [rq EXCEPT !.events = Append(@, [type |-> "delta", text |-> chunks[n]])]
        ELSE [rq EXCEPT !.pc = "done",
                        !.events = Append(@, [type |-> "done",
                                              sources |-> OrEmpty(rq.out.sources)])]

\* gen(): a delta is yielded
EmitDelta(r) ==
    /\ req[r].pc = "emit"
    /\ Len(req[r].events) < Len(chunk_text(req[r].answer, STREAM_CHUNK_SIZE))
    /\ req' = [req EXCEPT ![r] = Emitted(@)]
    /\ UNCHANGED <<SESSION_TURNS, index, appended, lastCtx, cli, lastCall, ingest, MEM_LOCK>>

\* gen(): the done event is yielded
EmitDone(r) ==
    /\ req[r].pc = "emit"
    /\ Len(req[r].events) >= Len(chunk_text(req[r].answer, STREAM_CHUNK_SIZE))
    /\ req' = [req EXCEPT ![r] = Emitted(@)]
    /\ UNCHANGED <<SESSION_TURNS, index, appended, lastCtx, cli, lastCall, ingest, MEM_LOCK>>

\* python main.py ingest: build_index() leaves the index as it is when kb/ holds
\* no document, and persists the chunks into vectorstore_dir otherwise
BuildIndex(kb_empty) ==
    /\ index' = build_index(IF kb_empty THEN <<>> ELSE <<KbDoc("/proj/kb/notes.md")>>,
                            "/proj", index, 1).index
    /\ UNCHANGED <<SESSION_TURNS, req, appended, lastCtx, cli, lastCall, ingest, MEM_LOCK>>

\* One step of the handler of a request that runs alone on a session store of
\* its own, st being [store, rq]: the call of _build_context, the call of ask,
\* the call of _store_turn, or one event of gen()
HandlerStep(st, env) ==
    CASE st.rq.pc = "ctx_get" ->
           LET b == build_context(st.store, st.rq.session_id, st.rq.depth) IN
           [store |-> b.store, rq |-> AfterContext(st.rq, b.ctx)]
      [] st.rq.pc = "ask" ->
           [st EXCEPT !.rq = AfterAsk(@, AskText(@, st.store), env)]
      [] st.rq.pc = "store_get" ->
           [store |-> store_turn(st.store, st.rq.session_id,
                                 StoredQuestion(st.rq), st.rq.answer),
            rq |-> AfterStore(st.rq)]
      [] st.rq.pc = "emit" ->
           [st EXCEPT !.rq = Emitted(@)]
      [] OTHER -> st

\* one request is sent to api_ask and to api_ask_stream, each starting from
\* the present session store and index state, the capabilities giving both
\* the same answers
RunBoth(request, env) ==
    /\ cli.pc = "idle"
    /\ cli' = [pc |-> "running", request |-> request, env |-> env,
               ask |-> [store |-> SESSION_TURNS,
                        rq |-> Received("ask", request.agent, request.question,
                                        request.k, request.session_id, index)],
               stream |-> [store |-> SESSION_TURNS,
                           rq |-> Received("stream", request.agent, request.question,
                                           request.k, request.session_id, index)]]
    /\ UNCHANGED <<SESSION_TURNS, index, req, appended, lastCtx, lastCall, ingest, MEM_LOCK>>

\* the handler of api_ask takes its next step
RunAskStep ==
    /\ cli.pc = "running"
    /\ cli.ask.rq.pc /= "done"
    /\ cli' = [cli EXCEPT !.ask = HandlerStep(@, cli.env)]
    /\ UNCHANGED <<SESSION_TURNS, index, req, appended, lastCtx, lastCall, ingest, MEM_LOCK>>

\* the handler of api_ask_stream, then gen(), takes its next step
RunStreamStep ==
    /\ cli.pc = "running"
    /\ cli.stream.rq.pc /= "done"
    /\ cli' = [cli EXCEPT !.stream = HandlerStep(@, cli.env)]
    /\ UNCHANGED <<SESSION_TURNS, index, req, appended, lastCtx, lastCall, ingest, MEM_LOCK>>

\* ---------------------------------------------------------- the event loop
\* api_ask is a plain function: the server runs each call of it on a thread of
\* its pool.  api_ask_stream and gen() are coroutines of the event loop, which
\* runs one coroutine at a time, from one suspension to the next; the server
\* accepts and dispatches the requests of both endpoints on the loop too.
\* gen() is suspended at `await asyncio.to_thread(ask, ...)` while ask runs on
\* a worker thread, and after each delta (the yield and asyncio.sleep(0)).

\* (mutant) gen() calls ask itself: out = ask(req.agent, question_for_model, req.k)
OnLoopAskInline(rq) ==
    /\ rq.ep = "stream"
    /\ \/ rq.pc \in {"ctx_get", "ctx_copy", "ask", "store"}
       \/ rq.pc = "emit" /\ rq.events = <<>> /\ Truthy(rq.session_id)

\* the coroutine of the request is running on the event loop, short of its
\* next suspension: api_ask_stream between the index test and its return
\* (lines 1001-1011), gen() between its resumption and its first yield
OnLoop(rq) ==
    /\ rq.ep = "stream"
    /\ \/ rq.pc \in {"ctx_get", "ctx_copy", "store"}
       \/ rq.pc = "emit" /\ rq.events = <<>> /\ Truthy(rq.session_id)

\* the event loop can take up work for request r
LoopFreeFor(r) == \A o \in Requests \ {r} : ~OnLoop(req[o])

\* the event loop can resume the coroutine of streaming request r
LoopRuns(r) == LoopFreeFor(r) /\ req[r].ep = "stream"

\* a step of request r that the event loop runs
LoopStep(r) ==
    \/ \E ep \in {"ask", "stream"}, agent \in Agents \cup {"writer"},
          question \in {"question " \o ToString(r)}, k \in {4},
          session_id \in {None, "", "s1", "s2"} :
            LoopFreeFor(r) /\ Receive(r, ep, agent, question, k, session_id)
    \/ LoopRuns(r) /\ ContextGet(r)
    \/ LoopRuns(r) /\ ContextCopy(r)
    \/ LoopRuns(r) /\ StoreGet(r)
    \/ LoopRuns(r) /\ StoreTurn(r)
    \/ LoopRuns(r) /\ EmitDelta(r)
    \/ LoopRuns(r) /\ EmitDone(r)

\* a step of request r that a thread of the pool runs (api_ask), and the
\* return of ask on its worker thread
ThreadStep(r, envs) ==
    \/ req[r].ep = "ask" /\ ContextGet(r)
    \/ req[r].ep = "ask" /\ ContextCopy(r)
    \/ req[r].ep = "ask" /\ StoreGet(r)
    \/ req[r].ep = "ask" /\ StoreTurn(r)
    \/ \E env \in envs : AskCall(r, env)

\* ----------------------------------------------- session-memory client
\* The session memory used through its two operations alone, one call after
\* the other: the n-th turn stored under session s is CapTurn(s, n).
CapTurn(s, n) == [q |-> "q" \o ToString(n) \o "@" \o s, a |-> "a" \o ToString(n)]

\* _store_turn(s, q, a)
CapStoreTurn(s) ==
    /\ appended[s] < MaxAppends
    /\ LET t == CapTurn(s, appended[s] + 1) IN
       SESSION_TURNS' = store_turn(SESSION_TURNS, s, t.q, t.a)
    /\ appended' = [appended EXCEPT ![s] = @ + 1]
    /\ lastCtx' = None
    /\ lastCall' = Unset
    /\ UNCHANGED <<index, req, cli, ingest, MEM_LOCK>>

\* _build_context(s, depth)
CapBuildContext(s, depth) ==
    /\ LET b == build_context(SESSION_TURNS, s, depth) IN
         /\ lastCtx' = b.ctx
         /\ SESSION_TURNS' = b.store
    /\ lastCall' = [session_id |-> s, depth |-> depth, store_before |-> SESSION_TURNS]
    /\ UNCHANGED <<index, req, appended, cli, ingest, MEM_LOCK>>

\* --------------------------------------- concurrent session-memory threads
\* Threads of the server process that call _store_turn and _build_context, each
\* call running statement by statement among those of the other threads.  The
\* n-th call of thread r, when it stores a turn under session s, stores
\* MemTurn(r, n, s).
MemTurn(r, n, s) ==
    [q |-> "q" \o ToString(r) \o "." \o ToString(n) \o "@" \o s,
     a |-> "a" \o ToString(r) \o "." \o ToString(n)]

\* thread r calls _store_turn(s, q, a)
MemStoreTurn(r, s) ==
    /\ req[r].pc \in {"idle", "returned"}
    /\ req[r].ncalls < MaxMemCalls
    /\ LET n == req[r].ncalls + 1
           t == MemTurn(r, n, s)
       IN  req' = [req EXCEPT ![r] =
             [IdleReq EXCEPT !.pc = "store_get", !.ep = "_store_turn",
                             !.session_id = s, !.question = t.q, !.answer = t.a,
                             !.ncalls = n,
                             !.calls = Append(req[r].calls, [session_id |-> s, turn |-> t])]]
    /\ UNCHANGED <<SESSION_TURNS, index, appended, lastCtx, cli, lastCall, ingest, MEM_LOCK>>

\* thread r calls _build_context(s, depth)
MemBuildContext(r, s, depth) ==
    /\ req[r].pc \in {"idle", "returned"}
    /\ req[r].ncalls < MaxMemCalls
    /\ req' = [req EXCEPT ![r] =
          [IdleReq EXCEPT !.pc = "ctx_get", !.ep = "_build_context",
                          !.session_id = s, !.depth = depth,
                          !.ncalls = req[r].ncalls + 1, !.calls = req[r].calls]]
    /\ UNCHANGED <<SESSION_TURNS, index, appended, lastCtx, cli, lastCall, ingest, MEM_LOCK>>

\* ------------------------------------- the session memory, lock by lock
\* The threads of the session memory again, the acquisitions and releases of
\* _MEM_LOCK being steps of their own.  A `with _MEM_LOCK:` statement is
\* entered by one step, which waits until the lock is free; its body is run
\* and the block left by the next step of the thread.  What lies outside the
\* `with` blocks runs without the lock: the test of the depth, and the lines
\* 65-72 of _build_context, where list(hist) copies the deque in one call of
\* the interpreter (ContextCopy).

\* a session id that is no dict key (a list): `session_id not in
\* _SESSION_TURNS` raises TypeError
Unhashable == "<unhashable>"

\* (mutant) acquire() and release() around the body, without try/finally: an
\* exception of the body leaves the lock held
WithExitLeak(r, raised) == IF raised THEN r ELSE Free

\* leaving a `with _MEM_LOCK:` block that thread r has entered: the lock is
\* released, whether the body has raised or not
WithExit(r, raised) == Free

\* _build_context lines 60-62: the depth is clamped; a depth of 0 returns ""
\* and _get_history is called otherwise
LockDepth(r) ==
    /\ req[r].pc = "ctx_get"
    /\ req' = [req EXCEPT ![r] =
          IF clamp_int(@.depth, CONTEXT_DEPTH_LO, CONTEXT_DEPTH_HI) <= 0
          THEN AfterContext(@, "")
          ELSE [@ EXCEPT !.pc = "ctx_lock"]]
    /\ UNCHANGED <<SESSION_TURNS, index, appended, lastCtx, cli, lastCall, ingest, MEM_LOCK>>

\* _get_history line 53, called by _build_context or by _store_turn: the lock
\* is acquired
GetHistoryEnter(r) ==
    /\ req[r].pc \in {"ctx_lock", "store_get"}
    /\ MEM_LOCK = Free
    /\ MEM_LOCK' = r
    /\ req' = [req EXCEPT ![r].pc = IF @ = "ctx_lock" THEN "ctx_hist" ELSE "store_hist"]
    /\ UNCHANGED <<SESSION_TURNS, index, appended, lastCtx, cli, lastCall, ingest>>

\* _get_history lines 54-56: the session is created when absent and its deque
\* returned to the caller, or the membership test raises; the block is left
GetHistoryBody(r) ==
    /\ req[r].pc \in {"ctx_hist", "store_hist"}
    /\ MEM_LOCK = r
    /\ IF req[r].session_id = Unhashable
       THEN /\ req' = [req EXCEPT ![r].pc = "raised"]
            /\ MEM_LOCK' = WithExit(r, TRUE)
            /\ UNCHANGED SESSION_TURNS
       ELSE /\ SESSION_TURNS' = get_history(SESSION_TURNS, req[r].session_id)
            /\ req' = [req EXCEPT ![r].pc = IF @ = "ctx_hist" THEN "ctx_copy" ELSE "store_lock"]
            /\ MEM_LOCK' = WithExit(r, FALSE)
    /\ UNCHANGED <<index, appended, lastCtx, cli, lastCall, ingest>>

\* _store_turn line 77: the lock is acquired
AppendEnter(r) ==
    /\ req[r].pc = "store_lock"
    /\ MEM_LOCK = Free
    /\ MEM_LOCK' = r
    /\ req' = [req EXCEPT ![r].pc = "store_append"]
    /\ UNCHANGED <<SESSION_TURNS, index, appended, lastCtx, cli, lastCall, ingest>>

\* _store_turn line 78: the turn is appended, the block is left and the call
\* returns
AppendBody(r) ==
    /\ req[r].pc = "store_append"
    /\ MEM_LOCK = r
    /\ SESSION_TURNS' = hist_append(SESSION_TURNS, req[r].session_id,
                                    StoredQuestion(req[r]), req[r].answer)
    /\ MEM_LOCK' = WithExit(r, FALSE)
    /\ req' = [req EXCEPT ![r] = AfterStore(@)]
    /\ UNCHANGED <<index, appended, lastCtx, cli, lastCall, ingest>>

\* ------------------------------------------------- a direct caller of ask
\* ask(agent, question, k) is called (main.py, demo_agent.py, an importer)
CliCall(agent, question, k) ==
    /\ cli.pc = "idle"
    /\ cli' = AskStart(agent, question, k)
    /\ UNCHANGED <<SESSION_TURNS, index, req, appended, lastCtx, lastCall, ingest, MEM_LOCK>>

\* the call runs to its next call of a capability, or to its end
CliStep(env) ==
    /\ cli.pc \in {"retrieve", "resolve", "generate"}
    /\ cli' = AskStep(cli, env)
    /\ UNCHANGED <<SESSION_TURNS, index, req, appended, lastCtx, lastCall, ingest, MEM_LOCK>>

\* format_sources(docs) is called
FormatSources(docs) ==
    /\ cli.pc = "idle"
    /\ cli' = [pc |-> "formatted", docs |-> docs, sources |-> format_sources(docs)]
    /\ UNCHANGED <<SESSION_TURNS, index, req, appended, lastCtx, lastCall, ingest, MEM_LOCK>>

\* ---------------------------------------------------------- the ingest run
\* python main.py ingest, run once in the working directory cwd
Ingest(docs, cwd, nchunks) ==
    /\ ingest = Unset
    /\ ingest' = build_index(docs, cwd, index, nchunks)
    /\ index' = ingest'.index
    /\ UNCHANGED <<SESSION_TURNS, req, appended, lastCtx, cli, lastCall, MEM_LOCK>>

\* ------------------------------------------------------------------ inputs
RECURSIVE Repeat(_, _)
Repeat(s, n) == IF n = 0 THEN "" ELSE s \o Repeat(s, n - 1)

Endpoints == {"ask", "stream"}
ReqAgents == Agents \cup {"writer"}
\* the question of the r-th request
Questions(r) == {"question " \o ToString(r)}
SessionIds == {None, "", "s1", "s2"}
Ks == {4}

D1 == [source |-> "kb/public/doc.pdf", has_page |-> TRUE, page |-> 2,
       page_content |-> " alpha\nbeta "]
D2 == [source |-> "kb/public/doc.pdf", has_page |-> TRUE, page |-> 2,
       page_content |-> "gamma"]
D3 == [source |-> "kb/notes.md", has_page |-> FALSE, page |-> 0,
       page_content |-> "delta"]

\* an answer of 141 characters: two slices
LongAnswer == Repeat("abcdefghij", 14) \o "k"
Contents == {"", LongAnswer}

Retrievals ==
    {[ok |-> TRUE, docs |-> <<D1, D2, D3>>], [ok |-> FALSE, error |-> "index unreadable"]}
GenerationFailure == [ok |-> FALSE, error |-> "model not found"]
Generations == {[ok |-> TRUE, content |-> c] : c \in Contents} \cup {GenerationFailure}
AskEnvs == [retrieve : Retrievals, generate : Generations]

IndexStates == {"absent", "empty", "built"}

\* the session ids and the depths of the session-memory client
CapSessions == {"s1", "s2"}
Depths == {-1, 0, 1, 3, 10, 11, 15}

\* the documents of an ingestion: files below kb/ under their absolute paths,
\* as load_docs names them, and Documents with another source, with one of the
\* other candidate keys, or with none
IngestSources ==
    {"/proj/kb/internal/x.md", "/proj/kb/public/x.md", "/proj/kb/x.md",
     "/proj/kb/INTERNAL/x.md", "/proj/kb/Public/sub/y.pdf", "/proj/kb/drafts/x.md",
     "/proj/kb/internals/x.md", "/proj/kb/internal/../public/x.md",
     "/proj/kbx/internal/x.md", "/etc/public/x.md", "/proj/kb"}
IngestDocs ==
    {KbDoc(src) : src \in IngestSources}
    \cup {[KbDoc(None) EXCEPT !.metadata = m] :
            m \in {Meta(None, None, None, None),
                   Meta("", "/proj/kb/public/x.md", None, None),
                   Meta(None, None, "/proj/kb/internal/x.md", "x.md"),
                   Meta(None, None, None, "x.md")}}
\* number of documents of an ingestion
MaxKbDocs == 2
KbLists == UNION {[1..n -> IngestDocs] : n \in 0..MaxKbDocs}
\* the working directories build_index is run in
Cwds == {"/proj", "/home/user", "/proj/kb/internal"}
ChunkCounts == {1, 5}

\* the retrieved chunks format_sources is called with: with and without a page,
\* of one source and of several, one of them without a "source" key
Chunk(source, has_page, page, page_content) ==
    [source |-> source, has_page |-> has_page, page |-> page, page_content |-> page_content]
SourceChunks ==
    {Chunk("doc.pdf", TRUE, 2, "alpha"), Chunk("doc.pdf", TRUE, 2, "beta"),
     Chunk("doc.pdf", TRUE, 0, "gamma"), Chunk("doc.pdf", FALSE, 0, "delta"),
     Chunk("notes.md", FALSE, 0, " eps\nilon "), Chunk("notes.md", TRUE, 2, "zeta"),
     Chunk("doc.pdf:2", FALSE, 0, "eta"), Chunk(None, FALSE, 0, "theta")}
\* number of chunks of a retrieval
MaxChunks == 3
ChunkLists == UNION {[1..n -> SourceChunks] : n \in 0..MaxChunks}

\* the concurrent threads: their sessions and depths, and the stores they may
\* find: an empty one, and one where s1 is one turn below the cap
MemSessions == {"s1", "s2"}
MemDepths == {0, 2, 10}
MemOld(s, n) == [q |-> "old" \o ToString(n) \o "@" \o s, a |-> "olda" \o ToString(n)]
MemFilled ==
    [s \in MemSessions |->
        IF s = "s1" THEN [n \in 1..(MAX_TURNS_PER_SESSION - 1) |-> MemOld(s, n)]
        ELSE <<MemOld(s, 1)>>]
MemStores == {<<>>, MemFilled}

\* the answers of every length up to MaxAnswerLen
MaxAnswerLen == 305
AnswerOfLen(n) == SubSeq(Repeat("abcdefghijklmnopqrstuvwxyz0123456", 10), 1, n)
ChunkEnvs ==
    {[retrieve |-> [ok |-> TRUE, docs |-> <<D1>>],
      generate |-> [ok |-> TRUE, content |-> AnswerOfLen(n)]] : n \in 0..MaxAnswerLen}

\* the inputs of a direct call of ask
CliQuestions == {"q1", "q2"}
CliKs == {4, 8}
CliEnvs ==
    [retrieve : {[ok |-> TRUE, docs |-> <<>>], [ok |-> TRUE, docs |-> <<D1, D2, D3>>],
                 [ok |-> FALSE, error |-> "index unreadable"]},
     generate : Generations]

Init ==
    /\ SESSION_TURNS = <<>>
    /\ index \in IndexStates
    /\ req = [r \in Requests |-> IdleReq]
    /\ appended = [s \in CapSessions |-> 0]
    /\ lastCtx = None
    /\ cli = AskIdle
    /\ lastCall = Unset
    /\ ingest = Unset
    /\ MEM_LOCK = Free

\* the server: MaxRequests requests on the two endpoints, in any interleaving
Next ==
    \/ \E r \in Requests : \E ep \in Endpoints, agent \in ReqAgents,
          question \in Questions(r), k \in Ks, session_id \in SessionIds :
            Receive(r, ep, agent, question, k, session_id)
    \/ \E r \in Requests : ContextGet(r)
    \/ \E r \in Requests : ContextCopy(r)
    \/ \E r \in Requests, env \in AskEnvs : AskCall(r, env)
    \/ \E r \in Requests : StoreGet(r)
    \/ \E r \in Requests : StoreTurn(r)
    \/ \E r \in Requests : EmitDelta(r)
    \/ \E r \in Requests : EmitDone(r)
    \/ \E kb_empty \in BOOLEAN : BuildIndex(kb_empty)

Spec == Init /\ [][Next]_vars

\* the session memory alone, driven up to and beyond its cap
InitCap == Init /\ index = "built"

NextCap ==
    \/ \E s \in CapSessions : CapStoreTurn(s)
    \/ \E s \in CapSessions, depth \in Depths : CapBuildContext(s, depth)

SpecCap == InitCap /\ [][NextCap]_vars

\* threads calling _store_turn and _build_context concurrently
InitMem ==
    /\ SESSION_TURNS \in MemStores
    /\ index = "built"
    /\ req = [r \in Requests |-> IdleReq]
    /\ appended = [s \in CapSessions |-> 0]
    /\ lastCtx = None
    /\ cli = AskIdle
    /\ lastCall = Unset
    /\ ingest = Unset
    /\ MEM_LOCK = Free

NextMem ==
    \/ \E r \in Requests, s \in MemSessions : MemStoreTurn(r, s)
    \/ \E r \in Requests, s \in MemSessions, depth \in MemDepths : MemBuildContext(r, s, depth)
    \/ \E r \in Requests : ContextGet(r)
    \/ \E r \in Requests : ContextCopy(r)
    \/ \E r \in Requests : StoreGet(r)
    \/ \E r \in Requests : StoreTurn(r)

SpecMem == InitMem /\ [][NextMem]_vars

\* the threads of the session memory with the lock: the stores they may find,
\* and their session ids, one of which is no dict key
LockStores == {<<>>, [s \in {"s1"} |-> <<MemOld(s, 1)>>]}
LockSessions == {"s1", "s2", Unhashable}
LockDepths == {0, 10}

InitLock ==
    /\ SESSION_TURNS \in LockStores
    /\ index = "built"
    /\ req = [r \in Requests |-> IdleReq]
    /\ appended = [s \in CapSessions |-> 0]
    /\ lastCtx = None
    /\ cli = AskIdle
    /\ lastCall = Unset
    /\ ingest = Unset
    /\ MEM_LOCK = Free

\* a step of thread r inside a call
LockStep(r) ==
    \/ LockDepth(r)
    \/ GetHistoryEnter(r)
    \/ GetHistoryBody(r)
    \/ ContextCopy(r)
    \/ AppendEnter(r)
    \/ AppendBody(r)

NextLock ==
    \/ \E r \in Requests, s \in LockSessions : MemStoreTurn(r, s)
    \/ \E r \in Requests, s \in LockSessions, depth \in LockDepths :
            MemBuildContext(r, s, depth)
    \/ \E r \in Requests : LockDepth(r)
    \/ \E r \in Requests : GetHistoryEnter(r)
    \/ \E r \in Requests : GetHistoryBody(r)
    \/ \E r \in Requests : ContextCopy(r)
    \/ \E r \in Requests : AppendEnter(r)
    \/ \E r \in Requests : AppendBody(r)

SpecLock == InitLock /\ [][NextLock]_vars

\* the threads are scheduled fairly: a thread whose next step stays possible
\* takes it
SpecLockFair == SpecLock /\ \A r \in Requests : WF_vars(LockStep(r))

\* the server under its scheduling: what the event loop runs, one coroutine at
\* a time, and what the threads run
NextSched ==
    \/ \E r \in Requests : LoopStep(r)
    \/ \E r \in Requests : ThreadStep(r, AskEnvs)

SpecSched == InitCap /\ [][NextSched]_vars

\* the two endpoints on the same request: the stores they may find (an empty
\* one, one where s1 holds a turn, one where s1 is at the cap) and the requests
FullStore == [s \in {"s1"} |-> [n \in 1..MAX_TURNS_PER_SESSION |-> MemOld(s, n)]]
EquivStores == LockStores \cup {FullStore}
EquivRequests ==
    [agent : ReqAgents, question : Questions(1), k : Ks, session_id : SessionIds]

InitEquiv ==
    /\ SESSION_TURNS \in EquivStores
    /\ index \in IndexStates
    /\ req = [r \in Requests |-> IdleReq]
    /\ appended = [s \in CapSessions |-> 0]
    /\ lastCtx = None
    /\ cli = AskIdle
    /\ lastCall = Unset
    /\ ingest = Unset
    /\ MEM_LOCK = Free

NextEquiv ==
    \/ \E request \in EquivRequests, env \in AskEnvs : RunBoth(request, env)
    \/ RunAskStep
    \/ RunStreamStep

SpecEquiv == InitEquiv /\ [][NextEquiv]_vars

\* format_sources called on the lists of chunks
NextSources == \E docs \in ChunkLists : FormatSources(docs)

SpecSources == Init /\ [][NextSources]_vars

\* ingestion runs
NextIngest ==
    \E docs \in KbLists, cwd \in Cwds, nchunks \in ChunkCounts : Ingest(docs, cwd, nchunks)

SpecIngest == Init /\ [][NextIngest]_vars

\* one streaming request, over the answers of every length up to MaxAnswerLen
NextChunk ==
    \/ \E agent \in Agents, session_id \in {None, "s1"} :
            Receive(1, "stream", agent, "question 1", 4, session_id)
    \/ ContextGet(1)
    \/ ContextCopy(1)
    \/ \E env \in ChunkEnvs : AskCall(1, env)
    \/ StoreGet(1)
    \/ StoreTurn(1)
    \/ EmitDelta(1)
    \/ EmitDone(1)

SpecChunk == InitCap /\ [][NextChunk]_vars

\* ask called directly, with any agent identifier
NextAsk ==
    \/ \E agent \in ReqAgents, question \in CliQuestions, k \in CliKs :
            CliCall(agent, question, k)
    \/ \E env \in CliEnvs : CliStep(env)

SpecAsk == InitCap /\ [][NextAsk]_vars

\* ================================================================= claims

HistOf(s) == IF s \in DOMAIN SESSION_TURNS THEN SESSION_TURNS[s] ELSE <<>>
Arrived(r) == req[r].pc /= "idle"
Succeeded(r) == req[r].out /= Unset /\ req[r].out.ok
Raised(r) == req[r].out /= Unset /\ ~req[r].out.ok
EnumeratedAgent(r) == req[r].agent \in {"thesis", "python", "reviewer"}
IsDelta(e) == e.type = "delta"
Deltas(r) == SelectSeq(req[r].events, IsDelta)

RECURSIVE ConcatTexts(_)
ConcatTexts(ds) == IF Len(ds) = 0 THEN "" ELSE Head(ds).text \o ConcatTexts(Tail(ds))

\* C1: in every reachable state of the session memory, after any sequence of
\* turn appends and context builds over the session ids, every session's
\* stored turn sequence has at most 80 turns.
C1_SessionCap ==
    \A s \in DOMAIN SESSION_TURNS : Len(SESSION_TURNS[s]) <= 80

\* more than 80 turns were appended to one session and to the other, and a
\* context was built afterwards
C1_Witness ==
    /\ appended["s1"] > 80 /\ Len(HistOf("s1")) = 80
    /\ appended["s2"] > 80 /\ Len(HistOf("s2")) = 80
    /\ lastCtx \notin {None, ""}

\* C2: after n appends of the turns t1..tn to a session, its history is the last
\* min(n, 80) of them in append order, each with its question and answer
\* unchanged (85 appends leave t6..t85).
C2_FifoEviction ==
    \A s \in CapSessions :
        LET n == appended[s]
            m == IF n <= 80 THEN n ELSE 80
        IN  /\ Len(HistOf(s)) = m
            /\ \A i \in 1..m : HistOf(s)[i] = CapTurn(s, n - m + i)

\* 85 turns were appended to s1: t6 is the oldest turn left and t85 the newest
C2_Witness ==
    /\ appended["s1"] = 85
    /\ Len(HistOf("s1")) = 80
    /\ HistOf("s1")[1] = CapTurn("s1", 6)
    /\ HistOf("s1")[80] = CapTurn("s1", 85)

\* C3: a successful streaming request emits deltas whose payloads, concatenated
\* in emission order, equal the answer; every delta has 140 characters except
\* possibly the last, which has 1 to 140; an empty answer yields no delta; the
\* number of deltas is ceil(len(answer) / 140).
C3_StreamChunks ==
    \A r \in Requests :
        (req[r].ep = "stream" /\ Succeeded(r)) =>
            LET answer == req[r].out.answer
                ds == Deltas(r)
                n == Len(ds)
                sent == ConcatTexts(ds)
            IN  /\ \A i \in 1..n : Len(ds[i].text) >= 1 /\ Len(ds[i].text) <= 140
                /\ \A i \in 1..(n - 1) : Len(ds[i].text) = 140
                /\ sent = SubSeq(answer, 1, Len(sent))
                /\ req[r].pc = "done" =>
                     /\ sent = answer
                     /\ n = (Len(answer) + 139) \div 140
                     /\ (answer = "" => n = 0)

\* the stream of an answer of 305 characters has ended: 140, 140, 25, then done
C3_Witness ==
    /\ req[1].pc = "done" /\ req[1].ep = "stream" /\ Succeeded(1)
    /\ Len(req[1].out.answer) = 305
    /\ Len(req[1].events) = 4
    /\ Len(req[1].events[1].text) = 140
    /\ Len(req[1].events[2].text) = 140
    /\ Len(req[1].events[3].text) = 25
    /\ req[1].events[4].type = "done"

\* C4: the events of a streaming response hold one terminal event, the last one:
\* on success deltas then one done event with the source listing, on failure a
\* single error event and no delta or done event; nothing follows a done or an
\* error event.
C4_OneTerminalEvent ==
    \A r \in Requests :
        req[r].ep = "stream" =>
            LET ev == req[r].events
                n == Len(ev)
            IN  /\ \A i \in 1..(n - 1) : ev[i].type = "delta"
                /\ (\E i \in 1..n : ev[i].type = "error") => n = 1
                /\ (req[r].pc /= "done") => \A i \in 1..n : ev[i].type = "delta"
                /\ (req[r].pc = "done" /\ req[r].resp.status = 200) =>
                     /\ n >= 1
                     /\ ev[n].type \in {"done", "error"}
                     /\ Succeeded(r) =>
                          ev[n] = [type |-> "done", sources |-> req[r].out.sources]
                     /\ ~Succeeded(r) => ev[n].type = "error"
                /\ (req[r].pc = "done" /\ req[r].resp.status /= 200) => n = 0

\* one stream has ended with two deltas and a done event, another with an error
C4_Witness ==
    /\ req[1].pc = "done" /\ req[1].ep = "stream" /\ Succeeded(1)
    /\ Len(req[1].events) = 3 /\ req[1].events[3].type = "done"
    /\ req[2].pc = "done" /\ req[2].ep = "stream" /\ Raised(2)
    /\ Len(req[2].events) = 1 /\ req[2].events[1].type = "error"

\* the turn a request stores: its original question and the raw answer of ask
TurnOf(r) == [q |-> req[r].question, a |-> req[r].out.answer]
\* the request is past its call of _store_turn (or has none to make)
PastStore(r) == req[r].pc \in {"emit", "done"}
Count(seq, t) == Cardinality({i \in 1..Len(seq) : seq[i] = t})
\* the turns of the store are those of the requests in R, one each
StoreIsTurnsOf(R) ==
    \A s \in (DOMAIN SESSION_TURNS) \cup {req[r].session_id : r \in R} :
        /\ Len(HistOf(s)) = Cardinality({r \in R : req[r].session_id = s})
        /\ \A r \in R : req[r].session_id = s =>
             Count(HistOf(s), TurnOf(r)) =
               Cardinality({r2 \in R : req[r2].session_id = s /\ TurnOf(r2) = TurnOf(r)})

\* C5 (as stated): a request appends a turn if and only if generation succeeded
\* and a session id was supplied (session_id is not None); the turn is the
\* original question and the raw answer; one turn per such request, on both
\* endpoints.
C5_AppendIffSupplied ==
    StoreIsTurnsOf({r \in Requests :
        Succeeded(r) /\ PastStore(r) /\ req[r].session_id /= None})

\* C5 (amended): a request appends a turn if and only if generation succeeded
\* and a non-empty session id was supplied (an empty session id is treated as
\* none); the turn is the original question and the raw answer; one turn per
\* such request, on both endpoints.
C5_AppendIffNonEmptyId ==
    StoreIsTurnsOf({r \in Requests :
        Succeeded(r) /\ PastStore(r) /\ req[r].session_id \notin {None, ""}})

\* both endpoints have stored a turn of session s1, the second one after a
\* prompt that was augmented with the first
C5_Witness ==
    /\ req[1].pc = "done" /\ req[1].ep = "ask" /\ Succeeded(1)
    /\ req[2].pc = "done" /\ req[2].ep = "stream" /\ Succeeded(2)
    /\ req[1].session_id = "s1" /\ req[2].session_id = "s1"
    /\ req[2].question_for_model /= req[2].question
    /\ HistOf("s1") = <<TurnOf(1), TurnOf(2)>>

\* C6: when ask raises during a request, the caller gets the error shape with
\* the message of the failure (ok=false and error; a single error event), ask
\* was called once for the request, and the request appends no turn.
C6_FailureSurfaced ==
    /\ \A r \in Requests :
         Raised(r) =>
           /\ req[r].pc = "done"
           /\ req[r].ncalls = 1
           /\ req[r].ep = "ask" =>
                req[r].resp.body = [ok |-> FALSE, error |-> req[r].out.error]
           /\ req[r].ep = "stream" =>
                req[r].events = <<[type |-> "error", error |-> req[r].out.error]>>
    /\ \A s \in DOMAIN SESSION_TURNS :
         Len(SESSION_TURNS[s]) <=
           Cardinality({r \in Requests : req[r].session_id = s /\ Arrived(r) /\ ~Raised(r)})

\* ask has raised in a request of each endpoint, both of session s1, whose
\* history exists and is empty
C6_Witness ==
    /\ Raised(1) /\ req[1].ep = "ask" /\ req[1].session_id = "s1"
    /\ Raised(2) /\ req[2].ep = "stream" /\ req[2].session_id = "s1"
    /\ req[1].out.error = "model not found"
    /\ "s1" \in DOMAIN SESSION_TURNS /\ HistOf("s1") = <<>>

\* C7: a request whose agent is outside {thesis, python, reviewer} fails, never
\* calls ask, creates no session and appends no turn, whatever its session id
\* and the state of the index.
C7_UnknownAgentNoEffect ==
    /\ \A r \in Requests :
         (Arrived(r) /\ ~EnumeratedAgent(r)) =>
           /\ req[r].pc = "done"
           /\ req[r].ncalls = 0 /\ req[r].calls = <<>>
           /\ req[r].events = <<>>
           /\ req[r].ep = "ask" => req[r].resp.body.ok = FALSE
           /\ req[r].ep = "stream" => req[r].resp.status = 400
    /\ \A s \in DOMAIN SESSION_TURNS :
         /\ \E r \in Requests : req[r].session_id = s /\ EnumeratedAgent(r)
         /\ Len(SESSION_TURNS[s]) <=
              Cardinality({r \in Requests : req[r].session_id = s /\ EnumeratedAgent(r)})

\* requests of both endpoints were rejected for their agent, with a session id,
\* while the index was built; the store is still empty
C7_Witness ==
    /\ req[1].pc = "done" /\ req[1].ep = "ask" /\ req[1].agent = "writer"
    /\ req[2].pc = "done" /\ req[2].ep = "stream" /\ req[2].agent = "writer"
    /\ req[1].session_id = "s1" /\ req[2].session_id = "s2"
    /\ index = "built"
    /\ DOMAIN SESSION_TURNS = {}

\* C8: on both endpoints a request whose agent is not one of the three
\* identifiers is rejected with an HTTP client-error status, not answered with
\* a successful-status response.
C8_ClientErrorStatus ==
    \A r \in Requests :
        (Arrived(r) /\ ~EnumeratedAgent(r)) =>
            (req[r].resp.status >= 400 /\ req[r].resp.status <= 499)

\* C9: ask called with an agent outside the enumerated set fails with the
\* unknown-agent error as its first step: no capability has been called when
\* the error is raised, and no other agent's system instruction is taken.
C9_UnknownAgentFirst ==
    (cli.pc = "done" /\ cli.agent \notin {"thesis", "python", "reviewer"}) =>
        /\ ~cli.result.ok
        /\ cli.result.error = "Unknown agent: " \o cli.agent =>
             (cli.calls = <<>> /\ cli.sys = None)

\* C10: when the index directory is absent or empty, a request with a valid
\* agent gets the index-not-built failure (ok=false and error; a single error
\* event), never calls ask and appends no turn.
C10_IndexNotBuilt ==
    /\ \A r \in Requests :
         (Arrived(r) /\ EnumeratedAgent(r) /\ req[r].index_seen \in {"absent", "empty"}) =>
           /\ req[r].pc = "done"
           /\ req[r].ncalls = 0 /\ req[r].calls = <<>>
           /\ req[r].ep = "ask" =>
                req[r].resp = [status |-> 200,
                               body |-> [ok |-> FALSE, error |-> INDEX_MISSING]]
           /\ req[r].ep = "stream" =>
                req[r].events = <<[type |-> "error", error |-> INDEX_MISSING]>>
    /\ \A s \in DOMAIN SESSION_TURNS :
         /\ \E r \in Requests : req[r].session_id = s /\ req[r].index_seen = "built"
         /\ Len(SESSION_TURNS[s]) <=
              Cardinality({r \in Requests : req[r].session_id = s /\ req[r].index_seen = "built"})

\* a request of each endpoint, with a valid agent and a session id, was refused
\* while the index directory was empty; the store holds no session
C10_Witness ==
    /\ \E r \in Requests : req[r].ep = "ask" /\ req[r].index_seen = "empty"
                           /\ req[r].pc = "done" /\ req[r].session_id = "s1"
                           /\ EnumeratedAgent(r)
    /\ \E r \in Requests : req[r].ep = "stream" /\ req[r].index_seen = "empty"
                           /\ req[r].pc = "done" /\ req[r].session_id = "s1"
                           /\ EnumeratedAgent(r)
    /\ DOMAIN SESSION_TURNS = {}

\* the context the specification describes for a history h and a depth d: the
\* last min(clamp(d, 0, 10), Len(h)) turns, oldest first, each as a question
\* block and an answer block, joined by a blank line
RECURSIVE TurnBlocks(_, _, _)
TurnBlocks(h, i, j) ==
    "User: " \o h[i].q \o "\nAssistant: " \o h[i].a
    \o (IF i >= j THEN "" ELSE "\n\n" \o TurnBlocks(h, i + 1, j))
ExpectedContext(h, d) ==
    LET c == IF d < 0 THEN 0 ELSE IF d > 10 THEN 10 ELSE d
        n == IF c < Len(h) THEN c ELSE Len(h)
    IN  IF n = 0 THEN "" ELSE TurnBlocks(h, Len(h) - n + 1, Len(h))
\* the fixed framing around a context block and the original question
Framed(ctx, q) ==
    "You are continuing an ongoing conversation. Use the context below to stay consistent.\n\n"
    \o "=== Conversation context (most recent last) ===\n" \o ctx
    \o "\n=== End context ===\n\nUser: " \o q

\* C11: when a handler has assembled the text for the orchestrator, that text is
\* the framed context followed by the original question exactly when a session
\* id was supplied and that session holds at least one turn, and the raw
\* question otherwise; it is the text ask is then called with.
C11_AugmentedIffHistory ==
    [][\A r \in Requests :
         /\ (req[r].pc /= "ask" /\ req'[r].pc = "ask") =>
              LET sid == req'[r].session_id
                  h == HistOf(sid)
              IN  req'[r].question_for_model =
                    IF sid /= None /\ Len(h) >= 1
                    THEN Framed(ExpectedContext(h, 10), req'[r].question)
                    ELSE req'[r].question
         /\ (req[r].pc = "ask" /\ req'[r].pc /= "ask") =>
              /\ req'[r].ncalls = 1
              /\ req'[r].calls[1].query = req[r].question_for_model
      ]_vars

\* two requests of session s1 have called ask: the first, which found no turn,
\* with its raw question, the second with the framed turn of the first
C11_Witness ==
    /\ req[1].session_id = "s1" /\ req[2].session_id = "s1"
    /\ req[1].ncalls = 1 /\ req[2].ncalls = 1
    /\ Succeeded(1) /\ PastStore(1)
    /\ req[1].calls[1].query = req[1].question
    /\ req[2].calls[1].query = Framed(ExpectedContext(<<TurnOf(1)>>, 10), req[2].question)

\* the history the last _build_context call found for its session
HistBefore ==
    IF lastCall.session_id \in DOMAIN lastCall.store_before
    THEN lastCall.store_before[lastCall.session_id]
    ELSE <<>>

\* C12: for every history h and depth d, build_context returns "" when the
\* clamped depth is 0 or h is empty, and otherwise the last
\* min(clamp(d, 0, 10), Len(h)) turns of h and nothing else, oldest first, as
\* question and answer blocks joined by a blank line.
C12_ContextWindow ==
    lastCall /= Unset => lastCtx = ExpectedContext(HistBefore, lastCall.depth)

\* a context of depth 3 was built for s1 after 85 appends, s2 holding turns too:
\* it is the turns 83, 84 and 85 of s1
C12_Witness ==
    /\ lastCall /= Unset /\ lastCall.session_id = "s1" /\ lastCall.depth = 3
    /\ appended["s1"] = 85 /\ appended["s2"] >= 1
    /\ lastCtx = "User: q83@s1\nAssistant: a83\n\n"
                 \o "User: q84@s1\nAssistant: a84\n\n"
                 \o "User: q85@s1\nAssistant: a85"

\* C13: build_context with a depth above 10 returns what depth 10 returns (and
\* leaves the same store), and with depth 0 or a negative depth it returns "",
\* whatever the history.
C13_DepthClamp ==
    lastCall /= Unset =>
        LET ten == build_context(lastCall.store_before, lastCall.session_id, 10) IN
        /\ lastCall.depth > 10 => (lastCtx = ten.ctx /\ SESSION_TURNS = ten.store)
        /\ lastCall.depth <= 0 => lastCtx = ""

\* a context of depth 15 was built for a session of 80 turns
C13_Witness ==
    /\ lastCall /= Unset /\ lastCall.depth = 15
    /\ Len(HistBefore) = 80
    /\ lastCtx = ExpectedContext(HistBefore, 10)

\* C14: build_context is read-only: after the call the store is the store of
\* before, with the same session ids and the same turns for each.
C14_BuildContextReadOnly ==
    lastCall /= Unset => SESSION_TURNS = lastCall.store_before

HistIn(store, s) == IF s \in DOMAIN store THEN store[s] ELSE <<>>
\* the i-th _store_turn call of thread r has returned
StoreReturned(r, i) ==
    i < Len(req[r].calls) \/ req[r].pc \notin {"store_get", "store"}

\* C15: concurrent _store_turn calls on one session id, which may not exist when
\* they start, all append to the one turn sequence of that session: every turn
\* whose call has returned is in it exactly once, and a turn whose call has not
\* reached its append is not in it (the totals stay below the cap of 80).
C15_ConcurrentAppends ==
    \A r \in Requests : \A i \in 1..Len(req[r].calls) :
        LET c == req[r].calls[i] IN
        /\ StoreReturned(r, i) => Count(HistOf(c.session_id), c.turn) = 1
        /\ ~StoreReturned(r, i) => Count(HistOf(c.session_id), c.turn) = 0

\* two threads have each stored two turns under s1, which did not exist at the
\* start, their appends alternating
C15_Witness ==
    /\ \A r \in Requests : req[r].pc = "returned" /\ req[r].ep = "_store_turn"
    /\ HistOf("s1") = <<MemTurn(1, 1, "s1"), MemTurn(2, 1, "s1"),
                        MemTurn(1, 2, "s1"), MemTurn(2, 2, "s1")>>

\* C16: a step of a _store_turn or _build_context call on session A leaves every
\* other session as it was (present or absent, and its turn sequence), also
\* when the append evicts a turn of A at the cap; no turn stored under one id
\* is in the sequence of another, and the context returned for A is made of
\* A's turns alone.
C16_SessionsIsolated ==
    [][/\ \A r \in Requests : \A j \in 1..Len(req'[r].calls) :
            \A B \in MemSessions \ {req'[r].calls[j].session_id} :
                Count(HistIn(SESSION_TURNS', B), req'[r].calls[j].turn) = 0
       /\ \A r \in Requests :
            req'[r] /= req[r] =>
              LET A == req'[r].session_id IN
              /\ \A B \in MemSessions \ {A} :
                   /\ (B \in DOMAIN SESSION_TURNS') = (B \in DOMAIN SESSION_TURNS)
                   /\ HistIn(SESSION_TURNS', B) = HistOf(B)
              /\ (req[r].pc \in {"ctx_get", "ctx_copy"} /\ req'[r].pc = "returned") =>
                   req'[r].ctx = ExpectedContext(HistOf(A), req'[r].depth)
      ]_vars

\* s1 was at the cap and a new turn has evicted its oldest turn, s2 still holds
\* its one turn, and the context just returned for s2 is that turn
C16_Witness ==
    /\ Len(HistOf("s1")) = 80
    /\ HistOf("s1")[1] = MemOld("s1", 2)
    /\ HistOf("s1")[80] = MemTurn(1, 2, "s1")
    /\ HistOf("s2") = <<MemOld("s2", 1)>>
    /\ req[2].pc = "returned" /\ req[2].ep = "_build_context"
    /\ req[2].session_id = "s2"
    /\ req[2].ctx = "User: old1@s2\nAssistant: olda1"

\* C17: when the server has received request A before request B, both of the
\* same session and both successful, the turn of A precedes the turn of B in
\* the history of the session, however long the two calls of ask have taken.
C17_ArrivalOrder ==
    \A A \in Requests, B \in Requests :
        (/\ A < B
         /\ Succeeded(A) /\ PastStore(A) /\ Succeeded(B) /\ PastStore(B)
         /\ req[A].session_id = req[B].session_id
         /\ req[A].session_id \notin {None, ""}) =>
            \E i \in 1..Len(HistOf(req[A].session_id)) :
            \E j \in 1..Len(HistOf(req[A].session_id)) :
                /\ i < j
                /\ HistOf(req[A].session_id)[i] = TurnOf(A)
                /\ HistOf(req[A].session_id)[j] = TurnOf(B)

\* the composite key of a chunk: (source, page) when it has a page, else source
PairKey(d) == <<DocSource(d), d.has_page, IF d.has_page THEN d.page ELSE 0>>
\* the citation line of a chunk: its source, its page counted from 1, its snippet
CitationLine(d) ==
    "- " \o DocSource(d)
    \o (IF d.has_page THEN " (p." \o ToString(d.page + 1) \o ")" ELSE "")
    \o ": " \o Snippet(d)
\* the chunks that are the first of their composite key, in their order
RECURSIVE FirstOfKeyFrom(_, _)
FirstOfKeyFrom(docs, i) ==
    IF i > Len(docs) THEN <<>>
    ELSE (IF \E j \in 1..(i - 1) : PairKey(docs[j]) = PairKey(docs[i])
          THEN <<>> ELSE <<docs[i]>>)
         \o FirstOfKeyFrom(docs, i + 1)
FirstOfKey(docs) == FirstOfKeyFrom(docs, 1)
RECURSIVE Lines(_)
Lines(ds) ==
    IF Len(ds) = 0 THEN ""
    ELSE CitationLine(Head(ds)) \o (IF Len(ds) = 1 THEN "" ELSE "\n" \o Lines(Tail(ds)))

\* C18: for every list of retrieved chunks, the listing of format_sources has one
\* citation line per distinct composite key (source, page), or source alone
\* for a chunk without a page, in first-seen order of the keys; chunks collapse
\* if and only if their keys are equal; a stored page p is rendered as p + 1.
C18_DedupByCompositeKey ==
    cli.pc = "formatted" => cli.sources = Lines(FirstOfKey(cli.docs))

\* the scope tag the specification gives a Document from its source (an
\* absolute path, or None when unset): by the first segment below the corpus
\* root, ignoring case
SegmentsBelowRoot(source) ==
    LET p == PathParts(source) IN
    IF Len(p) >= 2 /\ p[1] = "proj" /\ p[2] = "kb" THEN SubSeq(p, 3, Len(p)) ELSE <<>>
ExpectedScope(source) ==
    IF source = None \/ source = "" THEN "unknown"
    ELSE LET below == RemoveDotDot(<<>>, SegmentsBelowRoot(source)) IN
         IF Len(below) = 0 THEN "unknown"
         ELSE IF Lower(below[1]) = "internal" THEN "internal"
         ELSE IF Lower(below[1]) = "public" THEN "public"
         ELSE "unknown"

\* C19: the scope tag of every ingested document is internal exactly when the
\* first segment of its path below the corpus root is "internal" ignoring case,
\* public exactly when it is "public", and unknown otherwise (a file in the
\* root, another folder, a path outside the root, no source at all); the tag
\* depends on the path alone, and no document makes ingestion raise.
C19_ScopeByFirstSegment ==
    ingest /= Unset =>
        /\ ~ingest.raised
        /\ \A i \in 1..Len(ingest.docs) :
             ingest.docs[i].kb_scope = ExpectedScope(ingest.docs[i].metadata.source)

\* C20: build_index returns the number of chunks it has indexed; on an empty
\* corpus it builds no index, raises nothing and returns.
C20_ReturnsChunkCount ==
    ingest /= Unset =>
        /\ ~ingest.raised
        /\ Len(ingest.docs) = 0 => ingest.nchunks = 0
        /\ Len(ingest.docs) > 0 => ingest.ret = [value |-> ingest.nchunks]

\* C21: a thread copies the turns of a session for a context while it holds
\* _MEM_LOCK, and appends a turn while it holds it, so that the copy is the
\* history of the session at one instant: when the copy is made, the thread
\* that makes it holds the lock, and the context is that of the store then.
C21_SnapshotUnderLock ==
    [][\A r \in Requests :
         /\ (req[r].pc = "ctx_copy" /\ req'[r].pc /= "ctx_copy") =>
              /\ MEM_LOCK = r
              /\ req'[r].ctx = ExpectedContext(HistOf(req[r].session_id), req[r].depth)
         /\ (req[r].pc = "store_append" /\ req'[r].pc /= "store_append") =>
              MEM_LOCK = r
      ]_vars

\* the steps request r could take if nothing else were in the way
FreeStep(r) ==
    \/ \E ep \in Endpoints, agent \in ReqAgents, question \in Questions(r), k \in Ks,
          session_id \in SessionIds : Receive(r, ep, agent, question, k, session_id)
    \/ ContextGet(r) \/ ContextCopy(r) \/ StoreGet(r) \/ StoreTurn(r)
    \/ EmitDelta(r) \/ EmitDone(r)
    \/ \E env \in AskEnvs : AskCall(r, env)
SchedStep(r) == LoopStep(r) \/ ThreadStep(r, AskEnvs)
InGeneration(r) == req[r].pc = "ask"
BetweenDeltas(r) == req[r].ep = "stream" /\ req[r].pc = "emit" /\ Len(req[r].events) >= 1

\* C22: ask never runs on the event loop: while a request of either endpoint
\* is inside its call of ask, and while a streaming request is between two of
\* its deltas, the loop is not held by that request, and every other request
\* can take its next step (be received, build its context, have its own call
\* of ask return, store its turn, emit) unless a third one holds the loop.
C22_GenerationOffLoop ==
    \A r1 \in Requests :
        (InGeneration(r1) \/ BetweenDeltas(r1)) =>
            /\ ~OnLoop(req[r1])
            /\ \A r2 \in Requests \ {r1} :
                 ((\A o \in Requests \ {r1, r2} : ~OnLoop(req[o])) /\ ENABLED FreeStep(r2))
                    => ENABLED SchedStep(r2)

\* streaming request 1 is still inside ask, where it was when request 2 was
\* received; request 2 has had its answer generated and streamed to its end
C22_Witness ==
    /\ req[1].ep = "stream" /\ req[1].session_id = None /\ InGeneration(1)
    /\ req[2].ep = "stream" /\ req[2].pc = "done" /\ Succeeded(2)
    /\ Len(req[2].events) = 3 /\ req[2].events[3].type = "done"

\* the value of the first candidate key the metadata holds, None when it holds
\* none of the four
FirstPresent(m) ==
    IF m.source /= None THEN m.source
    ELSE IF m.file_path /= None THEN m.file_path
    ELSE IF m.path /= None THEN m.path
    ELSE m.filename

\* C23: after ingestion the source field of every document is the value of the
\* first of the keys source, file_path, path, filename that its metadata
\* held; a document that held none of them has no source and the scope
\* unknown.
C23_FirstPresentKey ==
    ingest /= Unset =>
        \A i \in 1..Len(ingest.docs) :
            LET first == FirstPresent(ingest.loaded[i].metadata) IN
            /\ ingest.docs[i].metadata.source = first
            /\ first = None => ingest.docs[i].kb_scope = "unknown"

C25_ContextIsSnapshot ==
    [][\A r \in Requests :
         LET sid == req[r].session_id IN
         /\ (req[r].pc = "ctx_copy" /\ req'[r].pc /= "ctx_copy") =>
              req'[r].ctx = ExpectedContext(HistOf(sid), 10)
         /\ (req[r].pc /= "idle" /\ req[r].ctx /= None) => req'[r].ctx = req[r].ctx
         /\ (req[r].pc = "ask" /\ req'[r].pc /= "ask" /\ sid \notin {None, ""}) =>
              req'[r].calls[1].query =
                IF req[r].ctx = "" THEN req[r].question
                ELSE Framed(req[r].ctx, req[r].question)
      ]_vars

\* request 2 took its snapshot of s1 when s1 was empty and is still inside
\* ask; request 1, which had taken the same snapshot, has stored its turn
\* since
C25_Witness ==
    /\ req[1].session_id = "s1" /\ req[2].session_id = "s1"
    /\ req[1].ctx = "" /\ req[2].ctx = ""
    /\ Succeeded(1) /\ req[1].pc = "done" /\ req[1].calls[1].query = req[1].question
    /\ req[2].pc = "ask"
    /\ HistOf("s1") = <<TurnOf(1)>>

\* the outcome of a request is an error: an HTTP error status, ok = false, or
\* a single error event
AskFailed(run) == run.rq.resp.status >= 400 \/ ~run.rq.resp.body.ok
StreamFailed(run) ==
    \/ run.rq.resp.status >= 400
    \/ Len(run.rq.events) = 1 /\ run.rq.events[1].type = "error"

\* C26: from the same session store and index state, on the same request and
\* with the same answers (or failures) of retrieval and generation, api_ask
\* and api_ask_stream make the same calls of the capabilities with the same
\* texts, leave the same session store, and deliver the same outcome: both
\* fail or both succeed, and then the deltas concatenated are the answer of
\* api_ask and the sources of the done event are its sources.
C26_EndpointsEquivalent ==
    (cli.pc = "running" /\ cli.ask.rq.pc = "done" /\ cli.stream.rq.pc = "done") =>
        LET a == cli.ask
            s == cli.stream
            ev == s.rq.events
        IN  /\ a.rq.ncalls = s.rq.ncalls
            /\ a.rq.calls = s.rq.calls
            /\ a.store = s.store
            /\ AskFailed(a) = StreamFailed(s)
            /\ ~AskFailed(a) =>
                 /\ Len(ev) >= 1
                 /\ \A i \in 1..(Len(ev) - 1) : ev[i].type = "delta"
                 /\ ConcatTexts(SubSeq(ev, 1, Len(ev) - 1)) = a.rq.resp.body.answer
                 /\ ev[Len(ev)] = [type |-> "done", sources |-> a.rq.resp.body.sources]

\* a request of session s1, which is at the cap, has been answered by both
\* endpoints with the two-slice answer: both have called ask with the framed
\* context and both stores have evicted the oldest turn for the new one
C26_Witness ==
    /\ cli.pc = "running" /\ cli.request.session_id = "s1"
    /\ cli.ask.rq.pc = "done" /\ cli.stream.rq.pc = "done"
    /\ SESSION_TURNS = FullStore
    /\ ~AskFailed(cli.ask) /\ cli.ask.rq.resp.body.answer = LongAnswer
    /\ Len(cli.stream.rq.events) = 3
    /\ cli.ask.rq.calls[1].query /= cli.request.question
    /\ cli.stream.store["s1"][1] = MemOld("s1", 2)
    /\ cli.stream.store["s1"][MAX_TURNS_PER_SESSION] =
         [q |-> cli.request.question, a |-> LongAnswer]

\* C27: both handlers test the agent first, then the index, then build the
\* context: a request with an invalid agent gets the agent rejection whatever
\* the state of the index, which is not even looked at, and a request
\* rejected for its agent or for a missing index has built no context and
\* created no session, even when it carries a session id.
C27_ValidationOrder ==
    /\ \A r \in Requests :
         (Arrived(r) /\ ~EnumeratedAgent(r)) =>
           /\ req[r].index_seen = None
           /\ req[r].ctx = None
           /\ req[r].events = <<>>
           /\ req[r].ep = "ask" =>
                req[r].resp = [status |-> 200,
                               body |-> [ok |-> FALSE,
                                         error |-> "400: agent must be thesis/python/reviewer"]]
           /\ req[r].ep = "stream" =>
                req[r].resp = [status |-> 400,
                               body |-> [detail |-> "agent must be thesis/python/reviewer"]]
    /\ \A r \in Requests :
         (Arrived(r) /\ EnumeratedAgent(r) /\ req[r].index_seen /= "built") =>
           (req[r].pc = "done" /\ req[r].ctx = None)
    /\ \A s \in DOMAIN SESSION_TURNS :
         \E r \in Requests :
            req[r].session_id = s /\ EnumeratedAgent(r) /\ req[r].index_seen = "built"

\* while the index directory is absent, a request of each endpoint with the
\* agent "writer" and the session id s1 has got the agent rejection, and the
\* store holds no session
C27_Witness ==
    /\ index = "absent"
    /\ req[1].ep = "ask" /\ req[1].agent = "writer" /\ req[1].session_id = "s1"
    /\ req[1].resp.body = [ok |-> FALSE, error |-> HttpExceptionStr]
    /\ req[2].ep = "stream" /\ req[2].agent = "writer" /\ req[2].session_id = "s1"
    /\ req[2].resp.status = 400
    /\ DOMAIN SESSION_TURNS = {}

\* thread r is inside a call of _store_turn or _build_context
InCall(r) == req[r].pc \notin {"idle", "returned", "raised"}
\* thread r is at a `with _MEM_LOCK:` statement, and inside such a block
AtAcquire(r) == req[r].pc \in {"ctx_lock", "store_get", "store_lock"}
InWithBlock(r) == req[r].pc \in {"ctx_hist", "store_hist", "store_append"}

\* C28: _MEM_LOCK never deadlocks: no thread is at an acquisition of the lock
\* while it holds it; a thread holds the lock only inside a `with` block, so
\* that the lock is not held by a thread whose _get_history, _store_turn or
\* _build_context has returned or raised; and, the threads being scheduled
\* fairly, every call of _store_turn and _build_context returns or raises.
C28_LockNeverDeadlocks ==
    /\ [](\A r \in Requests :
            /\ AtAcquire(r) => MEM_LOCK /= r
            /\ MEM_LOCK = r => InWithBlock(r))
    /\ \A r \in Requests : InCall(r) ~> ~InCall(r)

\* thread 1 has left _get_history by an exception and thread 2 has returned
\* from its second _store_turn; the lock is free
C28_Witness ==
    /\ req[1].pc = "raised" /\ req[1].session_id = Unhashable
    /\ req[2].pc = "returned" /\ req[2].ep = "_store_turn" /\ req[2].ncalls = MaxMemCalls
    /\ MEM_LOCK = Free

====
